---- MODULE Spec2Model ----
(***************************************************************************)
(* Model of PowershellAgent.py: the two subprocess tools                   *)
(* (execute_powershell_command, search_powershell_command), run_agent and  *)
(* the interactive loop that drives them.                                  *)
(*                                                                         *)
(* A text value is a sequence of chunks.  A chunk is either one character  *)
(* (" ", "\n", "a") or a literal of the program kept whole.  The chunks    *)
(* that occur in a stripped value (stdout, stderr, the typed line) neither *)
(* start nor end with whitespace unless they are in Whitespace, so         *)
(* str.strip() acts on chunks exactly as it acts on characters.            *)
(***************************************************************************)
EXTENDS Integers, Sequences, FiniteSets, TLC

\* longest run of whitespace put before and after a body of output
MaxPad == 1

Whitespace == {" ", "\n"}

(* ---------------------------- str methods ------------------------------ *)

RECURSIVE LStrip(_)
LStrip(s) ==
    IF s # <<>> /\ Head(s) \in Whitespace THEN LStrip(Tail(s)) ELSE s

RECURSIVE RStrip(_)
RStrip(s) ==
    IF s # <<>> /\ s[Len(s)] \in Whitespace
    THEN RStrip(SubSeq(s, 1, Len(s) - 1))
    ELSE s

\* mutant of Strip: only the trailing whitespace goes (str.rstrip)
Strip_RightOnly(s) == RStrip(s)

\* str.strip()
Strip(s) == RStrip(LStrip(s))

LowerChunk(c) ==
    CASE c = "EXIT" -> "exit"
      [] c = "Exit" -> "exit"
      [] c = "Quit" -> "quit"
      [] c = "Q" -> "q"
      [] c = "HELP" -> "help"
      [] c = "Config" -> "config"
      [] OTHER -> c

\* str.lower()
Lower(s) == [i \in 1..Len(s) |-> LowerChunk(s[i])]

(* ------------------------------ literals ------------------------------- *)

NoOutputMsg == <<"Command executed successfully with no output.">>
ExecErrorPrefix == <<"Error executing command: ">>
ExecTimeoutMsg == <<"Error: Command execution timed out (30 seconds limit).">>
ErrorPrefix == <<"Error: ">>
SearchTimeoutMsg == <<"Error: Search timed out.">>
SearchErrorPrefix == <<"Error searching for command: ">>

ExecLimit == 30
SearchLimit == 15

\* ["powershell", "-Command", command] with its timeout
ExecArgv(command) == [cmd |-> command, limit |-> ExecLimit]

HelpCommand(query) ==
    <<"Get-Help ">> \o query \o <<" -ErrorAction SilentlyContinue">>

SearchCommand(query) ==
    <<"Get-Command *">> \o query
        \o <<"* -ErrorAction SilentlyContinue | Select-Object -First 5 Name, Synopsis">>

\* ["powershell", "-Command", help_command] with its timeout
HelpArgv(query) == [cmd |-> HelpCommand(query), limit |-> SearchLimit]

\* ["powershell", "-Command", search_command] with its timeout
SearchArgv(query) == [cmd |-> SearchCommand(query), limit |-> SearchLimit]

RelatedMsg(out) ==
    <<"Related commands found:\n">> \o out
        \o <<"\n\nUse Get-Help <command-name> for more details.">>

\* mutant of NoHelpMsg: the query is trimmed before it is quoted
NoHelpMsg_Trimmed(query) ==
    <<"No help found for '">> \o Strip(query)
        \o <<"'. Try using more specific command names like Get-Process, Get-Service, etc.">>

NoHelpMsg(query) ==
    <<"No help found for '">> \o query
        \o <<"'. Try using more specific command names like Get-Process, Get-Service, etc.">>

ExitWords == {<<"exit">>, <<"quit">>, <<"q">>}

(* ------------------------- environment inputs -------------------------- *)

SeqsUpTo(S, n) == UNION {[1..k -> S] : k \in 0..n}

Pads == SeqsUpTo(Whitespace, MaxPad)

Padded(bodies) == {l \o b \o t : l \in Pads, b \in bodies, t \in Pads}

Commands == {<<"Get-Date">>, <<"Get-ChildItem">>}

Queries == {<<"Get-Process">>, <<" ", "zzz">>}

ExitCodes == {0, 1}

ExecStdouts == Padded({<<>>, <<"a">>, <<"a", " ", "a">>, NoOutputMsg})

ExecStderrs == Padded({<<>>, <<"a">>})

SearchStdouts ==
    Padded({<<>>, <<"a">>} \cup {NoHelpMsg(q) : q \in Queries})

\* str(e) of what subprocess.run raises before a child exists
LaunchErrors ==
    {<<"[WinError 2] The system cannot find the file specified">>,
     <<" ", "[WinError 5] Access is denied">>}

RawInputs ==
    {<<>>, <<" ">>, <<"exit">>, <<" ", "EXIT">>, <<"Exit", "\n">>, <<"Quit">>,
     <<"quit">>, <<"q">>, <<"Q">>, <<"help">>, <<"HELP", " ">>, <<"config">>,
     <<"Config">>, <<"exit", " ", "q">>, <<"list files">>, <<"[/x]">>}

(* -------------------------------- state -------------------------------- *)

VARIABLES
    pc,          \* where the process is: "prompt", "agent", "exec_wait",
                 \* "help_wait", "fuzzy_wait", "done"
    user_input,  \* the stripped line read by the loop
    shown,       \* the last thing printed on the console
    tool,        \* the tool of the current or last tool call
    arg,         \* its argument (command or query)
    runs,        \* the subprocess.run calls made by that tool call, in order
    live,        \* number of child processes that are running
    ret          \* how that tool call ended

vars == <<pc, user_input, shown, tool, arg, runs, live, ret>>

NoRet == [kind |-> "none", value |-> <<>>]
Returned(v) == [kind |-> "returned", value |-> v]
Raised(v) == [kind |-> "raised", value |-> v]

Running(argv) ==
    [cmd |-> argv.cmd, limit |-> argv.limit, kind |-> "running", started |-> TRUE,
     code |-> 0, stdout |-> <<>>, stderr |-> <<>>, desc |-> <<>>]

LaunchFailed(argv, d) ==
    [cmd |-> argv.cmd, limit |-> argv.limit, kind |-> "launch_failure",
     started |-> FALSE, code |-> 0, stdout |-> <<>>, stderr |-> <<>>, desc |-> d]

Exited(r, c, out, err) ==
    [r EXCEPT !.kind = "exit", !.code = c, !.stdout = out, !.stderr = err]

TimedOut(r) == [r EXCEPT !.kind = "timeout"]

Interrupted(r) == [r EXCEPT !.kind = "interrupt"]

Last(s) == s[Len(s)]

ReplaceLast(s, r) == [s EXCEPT ![Len(s)] = r]

Init ==
    /\ pc = "prompt"
    /\ user_input = <<>>
    /\ shown = "instructions"
    /\ tool = "none"
    /\ arg = <<>>
    /\ runs = <<>>
    /\ live = 0
    /\ ret = NoRet

(* --------------------- execute_powershell_command ---------------------- *)

\* mutant of ExecuteResult: stdout is appended to the error text
ExecuteResult_ErrWithStdout(r) ==
    IF r.code = 0
    THEN LET output == Strip(r.stdout)
         IN  IF output # <<>> THEN output ELSE NoOutputMsg
    ELSE ExecErrorPrefix \o Strip(r.stderr) \o Strip(r.stdout)

\* mutant of ExecuteResult: the sentinel also stands for an empty stderr
ExecuteResult_SentinelOnError(r) ==
    IF r.code = 0
    THEN LET output == Strip(r.stdout)
         IN  IF output # <<>> THEN output ELSE NoOutputMsg
    ELSE LET error == Strip(r.stderr)
         IN  IF error # <<>> THEN ExecErrorPrefix \o error ELSE NoOutputMsg

\* the return value for a child that exited
ExecuteResult(r) ==
    IF r.code = 0
    THEN LET output == Strip(r.stdout)
         IN  IF output # <<>> THEN output ELSE NoOutputMsg
    ELSE LET error == Strip(r.stderr)
         IN  ExecErrorPrefix \o error

\* mutant of ExecuteOnException: the failure is re-raised
ExecuteOnException_Reraise(d) == Raised(d)

\* except Exception as e
ExecuteOnException(d) == Returned(ErrorPrefix \o d)

\* except subprocess.TimeoutExpired
ExecuteOnTimeout == Returned(ExecTimeoutMsg)

\* the agent calls the tool, subprocess.run starts the child and waits
ExecuteStart ==
    /\ pc = "agent"
    /\ \E command \in Commands :
          /\ arg' = command
          /\ runs' = <<Running(ExecArgv(command))>>
    /\ tool' = "execute"
    /\ live' = live + 1
    /\ ret' = NoRet
    /\ pc' = "exec_wait"
    /\ UNCHANGED <<user_input, shown>>

\* the agent calls the tool and subprocess.run cannot create the child
ExecuteLaunchFails ==
    /\ pc = "agent"
    /\ \E command \in Commands, d \in LaunchErrors :
          /\ arg' = command
          /\ runs' = <<LaunchFailed(ExecArgv(command), d)>>
          /\ ret' = ExecuteOnException(d)
    /\ tool' = "execute"
    /\ pc' = "agent"
    /\ UNCHANGED <<user_input, shown, live>>

\* mutant of ExecuteExit: a non-zero exit is retried once
ExecuteExit_Retry ==
    /\ pc = "exec_wait"
    /\ \E c \in ExitCodes, out \in ExecStdouts, err \in ExecStderrs :
          LET r == Exited(Last(runs), c, out, err)
          IN  IF c # 0 /\ Len(runs) = 1
              THEN /\ runs' = ReplaceLast(runs, r) \o <<Running(ExecArgv(arg))>>
                   /\ UNCHANGED <<ret, live, pc>>
              ELSE /\ runs' = ReplaceLast(runs, r)
                   /\ ret' = Returned(ExecuteResult(r))
                   /\ live' = live - 1
                   /\ pc' = "agent"
    /\ UNCHANGED <<user_input, shown, tool, arg>>

\* the child exits within the limit
ExecuteExit ==
    /\ pc = "exec_wait"
    /\ \E c \in ExitCodes, out \in ExecStdouts, err \in ExecStderrs :
          LET r == Exited(Last(runs), c, out, err)
          IN  /\ runs' = ReplaceLast(runs, r)
              /\ ret' = Returned(ExecuteResult(r))
    /\ live' = live - 1
    /\ pc' = "agent"
    /\ UNCHANGED <<user_input, shown, tool, arg>>

\* mutant of ExecuteTimeout: the child is left running (Popen.communicate
\* with a timeout instead of subprocess.run)
ExecuteTimeout_NoKill ==
    /\ pc = "exec_wait"
    /\ runs' = ReplaceLast(runs, TimedOut(Last(runs)))
    /\ ret' = ExecuteOnTimeout
    /\ pc' = "agent"
    /\ UNCHANGED <<user_input, shown, tool, arg, live>>

\* the limit passes: subprocess.run kills the child, waits for it and raises
\* TimeoutExpired
ExecuteTimeout ==
    /\ pc = "exec_wait"
    /\ runs' = ReplaceLast(runs, TimedOut(Last(runs)))
    /\ live' = live - 1
    /\ ret' = ExecuteOnTimeout
    /\ pc' = "agent"
    /\ UNCHANGED <<user_input, shown, tool, arg>>

\* Ctrl-C while waiting: subprocess.run kills the child and re-raises;
\* KeyboardInterrupt is no Exception, so it passes every handler up to the
\* loop, which says goodbye
ToolInterrupt ==
    /\ pc \in {"exec_wait", "help_wait", "fuzzy_wait"}
    /\ runs' = ReplaceLast(runs, Interrupted(Last(runs)))
    /\ live' = live - 1
    /\ ret' = Raised(<<"KeyboardInterrupt">>)
    /\ shown' = "interrupted"
    /\ pc' = "done"
    /\ UNCHANGED <<user_input, tool, arg>>

(* ---------------------- search_powershell_command ---------------------- *)

\* mutant of HelpFound: any stdout counts, whatever the exit code
HelpFound_AnyOutput(r) == r.stdout # <<>>

\* result.returncode == 0 and result.stdout.strip(), for the Get-Help run
HelpFound(r) == r.code = 0 /\ Strip(r.stdout) # <<>>

\* the same test for the Get-Command run
FuzzyFound(r) == r.code = 0 /\ Strip(r.stdout) # <<>>

\* the return value after the Get-Command run
FuzzyResult(r, query) ==
    IF FuzzyFound(r) THEN RelatedMsg(Strip(r.stdout)) ELSE NoHelpMsg(query)

\* except subprocess.TimeoutExpired
SearchOnTimeout == Returned(SearchTimeoutMsg)

\* except Exception as e
SearchOnException(d) == Returned(SearchErrorPrefix \o d)

\* the agent calls the tool, subprocess.run starts Get-Help and waits
SearchStart ==
    /\ pc = "agent"
    /\ \E query \in Queries :
          /\ arg' = query
          /\ runs' = <<Running(HelpArgv(query))>>
    /\ tool' = "search"
    /\ live' = live + 1
    /\ ret' = NoRet
    /\ pc' = "help_wait"
    /\ UNCHANGED <<user_input, shown>>

\* the agent calls the tool and subprocess.run cannot create the child
SearchLaunchFails ==
    /\ pc = "agent"
    /\ \E query \in Queries, d \in LaunchErrors :
          /\ arg' = query
          /\ runs' = <<LaunchFailed(HelpArgv(query), d)>>
          /\ ret' = SearchOnException(d)
    /\ tool' = "search"
    /\ pc' = "agent"
    /\ UNCHANGED <<user_input, shown, live>>

\* Get-Help exits within the limit: its output is returned, or Get-Command
\* is started
HelpExit ==
    /\ pc = "help_wait"
    /\ \E c \in ExitCodes, out \in SearchStdouts :
          LET r == Exited(Last(runs), c, out, <<>>)
          IN  IF HelpFound(r)
              THEN /\ runs' = ReplaceLast(runs, r)
                   /\ ret' = Returned(Strip(r.stdout))
                   /\ live' = live - 1
                   /\ pc' = "agent"
              ELSE /\ runs' = ReplaceLast(runs, r) \o <<Running(SearchArgv(arg))>>
                   /\ pc' = "fuzzy_wait"
                   /\ UNCHANGED <<ret, live>>
    /\ UNCHANGED <<user_input, shown, tool, arg>>

\* Get-Help exits without help and subprocess.run cannot create the child
\* for Get-Command
HelpExitLaunchFails ==
    /\ pc = "help_wait"
    /\ \E c \in ExitCodes, out \in SearchStdouts, d \in LaunchErrors :
          LET r == Exited(Last(runs), c, out, <<>>)
          IN  /\ ~HelpFound(r)
              /\ runs' = ReplaceLast(runs, r) \o <<LaunchFailed(SearchArgv(arg), d)>>
              /\ ret' = SearchOnException(d)
    /\ live' = live - 1
    /\ pc' = "agent"
    /\ UNCHANGED <<user_input, shown, tool, arg>>

\* Get-Command exits within the limit
FuzzyExit ==
    /\ pc = "fuzzy_wait"
    /\ \E c \in ExitCodes, out \in SearchStdouts :
          LET r == Exited(Last(runs), c, out, <<>>)
          IN  /\ runs' = ReplaceLast(runs, r)
              /\ ret' = Returned(FuzzyResult(r, arg))
    /\ live' = live - 1
    /\ pc' = "agent"
    /\ UNCHANGED <<user_input, shown, tool, arg>>

\* mutant of SearchTimesOut: a Get-Help that timed out falls back to
\* Get-Command
SearchTimesOut_Fallback ==
    /\ pc \in {"help_wait", "fuzzy_wait"}
    /\ IF pc = "help_wait"
       THEN /\ runs' = ReplaceLast(runs, TimedOut(Last(runs)))
                          \o <<Running(SearchArgv(arg))>>
            /\ pc' = "fuzzy_wait"
            /\ UNCHANGED <<ret, live>>
       ELSE /\ runs' = ReplaceLast(runs, TimedOut(Last(runs)))
            /\ live' = live - 1
            /\ ret' = SearchOnTimeout
            /\ pc' = "agent"
    /\ UNCHANGED <<user_input, shown, tool, arg>>

\* the limit of either run passes: subprocess.run kills the child and raises
\* TimeoutExpired
SearchTimesOut ==
    /\ pc \in {"help_wait", "fuzzy_wait"}
    /\ runs' = ReplaceLast(runs, TimedOut(Last(runs)))
    /\ live' = live - 1
    /\ ret' = SearchOnTimeout
    /\ pc' = "agent"
    /\ UNCHANGED <<user_input, shown, tool, arg>>

(* ------------------------ run_agent and the loop ----------------------- *)

\* rich raises MarkupError for a closing tag that matches no open tag
BadMarkup(s) == \E i \in 1..Len(s) : s[i] = "[/x]"

ForgetToolCall ==
    /\ tool' = "none"
    /\ arg' = <<>>
    /\ runs' = <<>>
    /\ ret' = NoRet

\* user_input.lower() in ['exit', 'quit', 'q']
IsExit(u) == Lower(u) \in ExitWords

IsHelp(u) == Lower(u) = <<"help">>

IsConfig(u) == Lower(u) = <<"config">>

\* one pass of the loop up to the call of agent.invoke
ReadInput ==
    /\ pc = "prompt"
    /\ \E raw \in RawInputs :
          LET u == Strip(raw)
          IN  /\ user_input' = u
              /\ IF u = <<>>
                 THEN UNCHANGED <<pc, shown>>
                 ELSE IF IsExit(u)
                 THEN pc' = "done" /\ shown' = "goodbye"
                 ELSE IF IsHelp(u)
                 THEN pc' = "prompt" /\ shown' = "examples"
                 ELSE IF IsConfig(u)
                 THEN pc' = "prompt" /\ shown' = "config"
                 ELSE IF BadMarkup(u)
                 THEN pc' = "prompt" /\ shown' = "loop_error"
                 ELSE pc' = "agent" /\ shown' = "request"
    /\ UNCHANGED <<tool, arg, runs, live, ret>>

\* Prompt.ask raises an Exception (end of input)
PromptFails ==
    /\ pc = "prompt"
    /\ shown' = "loop_error"
    /\ UNCHANGED <<pc, user_input, tool, arg, runs, live, ret>>

\* Ctrl-C at the prompt
PromptInterrupt ==
    /\ pc = "prompt"
    /\ shown' = "interrupted"
    /\ pc' = "done"
    /\ UNCHANGED <<user_input, tool, arg, runs, live, ret>>

\* agent.invoke returns messages and the last one is printed
AgentResponds ==
    /\ pc = "agent"
    /\ shown' = "response"
    /\ pc' = "prompt"
    /\ ForgetToolCall
    /\ UNCHANGED <<user_input, live>>

\* agent.invoke returns no message
AgentNoResponse ==
    /\ pc = "agent"
    /\ shown' = "no_response"
    /\ pc' = "prompt"
    /\ ForgetToolCall
    /\ UNCHANGED <<user_input, live>>

\* mutant of AgentRaises: run_agent lets the failure end the program
AgentRaises_Fatal ==
    /\ pc = "agent"
    /\ shown' = "traceback"
    /\ pc' = "done"
    /\ ForgetToolCall
    /\ UNCHANGED <<user_input, live>>

\* agent.invoke (or the rendering of its answer) raises an Exception
AgentRaises ==
    /\ pc = "agent"
    /\ shown' = "agent_error"
    /\ pc' = "prompt"
    /\ ForgetToolCall
    /\ UNCHANGED <<user_input, live>>

\* Ctrl-C while the agent is thinking
AgentInterrupt ==
    /\ pc = "agent"
    /\ shown' = "interrupted"
    /\ pc' = "done"
    /\ ForgetToolCall
    /\ UNCHANGED <<user_input, live>>

Next ==
    \/ ReadInput
    \/ PromptFails
    \/ PromptInterrupt
    \/ AgentResponds
    \/ AgentNoResponse
    \/ AgentRaises
    \/ AgentInterrupt
    \/ ExecuteStart
    \/ ExecuteLaunchFails
    \/ ExecuteExit
    \/ ExecuteTimeout
    \/ SearchStart
    \/ SearchLaunchFails
    \/ HelpExit
    \/ HelpExitLaunchFails
    \/ FuzzyExit
    \/ SearchTimesOut
    \/ ToolInterrupt

Spec == Init /\ [][Next]_vars

(* ------------------------------ properties ----------------------------- *)

\* v is s without its leading and trailing whitespace, said without Strip
IsTrimOf(v, s) ==
    /\ v # <<>> => (v[1] \notin Whitespace /\ v[Len(v)] \notin Whitespace)
    /\ \E i \in 0..Len(s) :
          /\ i + Len(v) <= Len(s)
          /\ SubSeq(s, i + 1, i + Len(v)) = v
          /\ \A k \in 1..Len(s) :
                (k <= i \/ k > i + Len(v)) => s[k] \in Whitespace

Blank(s) == \A k \in 1..Len(s) : s[k] \in Whitespace

WaitStates == {"exec_wait", "help_wait", "fuzzy_wait"}

\* the tool call has ended: its last subprocess.run is over
CallEnded == tool # "none" /\ runs # <<>> /\ Last(runs).kind # "running"

ExecExited == tool = "execute" /\ CallEnded /\ runs[1].kind = "exit"

NumStarted == Cardinality({i \in 1..Len(runs) : runs[i].started})

\* C1 as stated: exit code 0 and a stdout that is not empty give exactly the
\* trimmed stdout
C1_Original ==
    (ExecExited /\ runs[1].code = 0 /\ runs[1].stdout # <<>>)
        => (ret.kind = "returned" /\ IsTrimOf(ret.value, runs[1].stdout))

\* C1 amended: when the child exits with code 0 and its stdout holds
\* something other than whitespace, execute_powershell_command returns
\* exactly the stdout without its leading and trailing whitespace, whatever
\* stderr holds
C1_TrimmedStdout ==
    (ExecExited /\ runs[1].code = 0 /\ ~Blank(runs[1].stdout))
        => (ret.kind = "returned" /\ IsTrimOf(ret.value, runs[1].stdout))

C1_Witness ==
    /\ ExecExited /\ runs[1].code = 0
    /\ ~Blank(runs[1].stdout)
    /\ Len(ret.value) + 2 = Len(runs[1].stdout)
    /\ runs[1].stderr # <<>>

\* C2: when the child exits with a code other than 0 the result is
\* "Error executing command: " followed by the trimmed stderr, for every
\* stdout and stderr
C2_ErrorWithStderr ==
    (ExecExited /\ runs[1].code # 0)
        => /\ ret.kind = "returned"
           /\ ret.value # <<>>
           /\ <<Head(ret.value)>> = <<"Error executing command: ">>
           /\ IsTrimOf(Tail(ret.value), runs[1].stderr)

C2_Witness ==
    /\ ExecExited /\ runs[1].code # 0
    /\ Blank(runs[1].stderr) /\ runs[1].stderr # <<>>
    /\ ~Blank(runs[1].stdout)
    /\ ret.value = <<"Error executing command: ">>

\* C3: a command still running at the 30 second limit makes the call return
\* the fixed timeout message, and once the call has returned no child is
\* running: children only run while a tool call waits for them
C3_TimeoutKillsChild ==
    /\ (tool = "execute" /\ CallEnded /\ runs[1].kind = "timeout")
          => /\ ret = Returned(<<"Error: Command execution timed out (30 seconds limit).">>)
             /\ runs[1].limit = 30
             /\ live = 0
    /\ pc \notin WaitStates => live = 0

C3_Witness ==
    /\ tool = "execute" /\ pc = "agent"
    /\ runs # <<>> /\ runs[1].kind = "timeout" /\ runs[1].started

\* C4: whether the subprocess step ends in an exit with any code, a timeout
\* or a launch failure, both tools end by returning text, and a launch
\* failure in execute is returned as "Error: " followed by its description
C4_NoFaultPropagates ==
    (CallEnded /\ Last(runs).kind \in {"exit", "timeout", "launch_failure"})
        => /\ ret.kind = "returned"
           /\ (tool = "execute" /\ runs[1].kind = "launch_failure")
                 => ret.value = <<"Error: ">> \o runs[1].desc

C4_Witness ==
    /\ tool = "execute" /\ CallEnded
    /\ runs[1].kind = "launch_failure"
    /\ Head(runs[1].desc) = " "
    /\ ret.kind = "returned"

SearchCalled == tool = "search" /\ runs # <<>>

HelpExited == SearchCalled /\ runs[1].kind = "exit"

\* Get-Command was launched (or its launch was attempted) after Get-Help
FellBack ==
    /\ Len(runs) = 2
    /\ runs[2].cmd = <<"Get-Command *">> \o arg
          \o <<"* -ErrorAction SilentlyContinue | Select-Object -First 5 Name, Synopsis">>

\* C5 as stated: the lookup runs first; any output of the lookup is returned
\* trimmed and Get-Command is never launched; a lookup with no output or a
\* non-zero exit falls back to Get-Command
C5_Original ==
    SearchCalled =>
        /\ runs[1].cmd = <<"Get-Help ">> \o arg \o <<" -ErrorAction SilentlyContinue">>
        /\ (HelpExited /\ runs[1].stdout # <<>>)
              => /\ Len(runs) = 1
                 /\ ret.kind = "returned" /\ IsTrimOf(ret.value, runs[1].stdout)
        /\ (HelpExited /\ (runs[1].stdout = <<>> \/ runs[1].code # 0))
              => FellBack

\* C5 amended: search_powershell_command always runs the direct help lookup
\* first; when the lookup exits with code 0 and its stdout holds something
\* other than whitespace, that trimmed stdout is returned and the fuzzy
\* command search is never launched; whenever the lookup exits with a
\* non-zero code or with an empty or whitespace-only stdout, the call falls
\* back to launching the fuzzy command search; a lookup that times out or
\* cannot be launched ends the call without the fuzzy search
C5_LookupThenFallback ==
    SearchCalled =>
        /\ runs[1].cmd = <<"Get-Help ">> \o arg \o <<" -ErrorAction SilentlyContinue">>
        /\ (HelpExited /\ runs[1].code = 0 /\ ~Blank(runs[1].stdout))
              => /\ Len(runs) = 1
                 /\ ret.kind = "returned" /\ IsTrimOf(ret.value, runs[1].stdout)
        /\ (HelpExited /\ (runs[1].code # 0 \/ Blank(runs[1].stdout)))
              => FellBack
        /\ runs[1].kind \in {"timeout", "launch_failure"} => Len(runs) = 1

C5_Witness ==
    /\ HelpExited /\ FellBack
    /\ runs[1].code # 0 /\ ~Blank(runs[1].stdout)
    /\ runs[2].started

\* C6 as stated: exit code 0 with an empty stdout gives the sentinel, and the
\* sentinel is returned in no other case
C6_Original ==
    /\ (ExecExited /\ runs[1].code = 0 /\ runs[1].stdout = <<>>)
          => ret = Returned(<<"Command executed successfully with no output.">>)
    /\ (tool = "execute" /\ CallEnded
          /\ ret = Returned(<<"Command executed successfully with no output.">>))
          => (runs[1].kind = "exit" /\ runs[1].code = 0 /\ runs[1].stdout = <<>>)

\* C6 amended: when the child exits with code 0 and its stdout is empty or
\* only whitespace, the result is exactly the sentinel "Command executed
\* successfully with no output."; the sentinel is returned only when the
\* child exits with code 0 and its trimmed stdout is empty or is the text of
\* the sentinel itself
C6_Sentinel ==
    /\ (ExecExited /\ runs[1].code = 0 /\ Blank(runs[1].stdout))
          => ret = Returned(<<"Command executed successfully with no output.">>)
    /\ (tool = "execute" /\ CallEnded
          /\ ret = Returned(<<"Command executed successfully with no output.">>))
          => /\ runs[1].kind = "exit" /\ runs[1].code = 0
             /\ \/ Blank(runs[1].stdout)
                \/ IsTrimOf(<<"Command executed successfully with no output.">>,
                            runs[1].stdout)

C6_Witness ==
    /\ ExecExited /\ runs[1].code = 0
    /\ Blank(runs[1].stdout) /\ runs[1].stdout # <<>>
    /\ ret = Returned(<<"Command executed successfully with no output.">>)

\* the not-found text for a query, as the claim quotes it
NotFoundText(query) ==
    <<"No help found for '">> \o query
        \o <<"'. Try using more specific command names like Get-Process, Get-Service, etc.">>

BothExited ==
    /\ tool = "search" /\ CallEnded /\ Len(runs) = 2
    /\ runs[1].kind = "exit" /\ runs[2].kind = "exit"

\* C7 as stated: when the lookup and the fuzzy search each end with a
\* non-zero exit or no output, the not-found text with the query unchanged is
\* returned, and it is returned in no other case
C7_Original ==
    /\ (BothExited /\ \A i \in 1..2 : runs[i].code # 0 \/ runs[i].stdout = <<>>)
          => ret = Returned(NotFoundText(arg))
    /\ (tool = "search" /\ CallEnded /\ ret = Returned(NotFoundText(arg)))
          => (BothExited /\ \A i \in 1..2 : runs[i].code # 0 \/ runs[i].stdout = <<>>)

\* C7 amended: when the lookup and the fuzzy search each end with a non-zero
\* exit or with an empty or whitespace-only stdout, the call returns exactly
\* the not-found text with the query unchanged; that text is returned
\* otherwise only when the direct lookup exits with code 0 and its trimmed
\* stdout is itself that text
C7_NotFound ==
    /\ (BothExited /\ \A i \in 1..2 : runs[i].code # 0 \/ Blank(runs[i].stdout))
          => ret = Returned(NotFoundText(arg))
    /\ (tool = "search" /\ CallEnded /\ ret = Returned(NotFoundText(arg)))
          => \/ BothExited /\ \A i \in 1..2 : runs[i].code # 0 \/ Blank(runs[i].stdout)
             \/ /\ Len(runs) = 1 /\ runs[1].kind = "exit" /\ runs[1].code = 0
                /\ IsTrimOf(NotFoundText(arg), runs[1].stdout)

C7_Witness ==
    /\ BothExited
    /\ runs[1].code = 0 /\ Blank(runs[1].stdout) /\ runs[1].stdout # <<>>
    /\ runs[2].code # 0 /\ ~Blank(runs[2].stdout)
    /\ Head(arg) = " "
    /\ ret = Returned(NotFoundText(arg))

\* C8: a timeout of the lookup or of the fuzzy search makes the call return
\* exactly "Error: Search timed out."; the run that timed out is the last
\* one of the call, so a lookup that timed out is its only run
C8_SearchTimeout ==
    (SearchCalled /\ \E i \in 1..Len(runs) : runs[i].kind = "timeout")
        => /\ ret = Returned(<<"Error: Search timed out.">>)
           /\ Last(runs).kind = "timeout"
           /\ Last(runs).limit = 15
           /\ runs[1].kind = "timeout" => Len(runs) = 1

C8_Witness ==
    /\ SearchCalled /\ pc = "agent"
    /\ Len(runs) = 1 /\ runs[1].kind = "timeout"
    /\ ret.value = <<"Error: Search timed out.">>

ExecOutcomes == {"exit", "timeout", "launch_failure"}

\* C9 as stated: whatever the outcome, one call starts exactly one child and
\* produces exactly one result
C9_Original ==
    (tool = "execute" /\ CallEnded /\ Last(runs).kind \in ExecOutcomes)
        => (Len(runs) = 1 /\ NumStarted = 1 /\ ret.kind = "returned")

\* C9 amended: every call of execute_powershell_command calls subprocess.run
\* exactly once and never retries; the number of child processes it starts
\* is one when the outcome is an exit (code 0 or not) or a timeout and none
\* when the launch fails, and the call produces exactly one result
C9_OneSpawnNoRetry ==
    tool = "execute" =>
        /\ Len(runs) = 1
        /\ ret.kind # "none" <=> CallEnded
        /\ (CallEnded /\ runs[1].kind \in ExecOutcomes)
              => /\ ret.kind = "returned"
                 /\ NumStarted = (IF runs[1].kind = "launch_failure" THEN 0 ELSE 1)

C9_Witness ==
    /\ tool = "execute" /\ CallEnded
    /\ runs[1].kind = "launch_failure"
    /\ NumStarted = 0 /\ live = 0
    /\ ret.kind = "returned" /\ Head(runs[1].desc) # " "

ExitSpellings ==
    {<<"exit">>, <<"EXIT">>, <<"Exit">>, <<"quit">>, <<"Quit">>, <<"q">>, <<"Q">>}

BuiltinSpellings ==
    ExitSpellings \cup {<<"help">>, <<"HELP">>, <<"config">>, <<"Config">>}

====
